---------------------------- MODULE Spec2Model ----------------------------
(***************************************************************************)
(* A model of src/main.py, a Pygame snake game.                            *)
(*                                                                         *)
(* The state is the local state of main(): the snake (body, direction),   *)
(* the food position, score, framerate, game_over, running, and the       *)
(* position of the main loop (pc).  One action per event branch of the    *)
(* event loop (lines 113-131) and one action for the rest of the loop     *)
(* body (lines 133-162).  Positions are pixel pairs <<x, y>> as in the    *)
(* code; directions are unit vectors <<dx, dy>>.                          *)
(***************************************************************************)
EXTENDS Integers, Sequences, FiniteSets, TLC

VARIABLES body, direction, position, score, framerate, game_over, running,
          pc, call

vars == <<body, direction, position, score, framerate, game_over, running,
          pc, call>>

game == <<body, direction, position, score, framerate, game_over, running, pc>>

---------------------------------------------------------------------------
(* Program constants.                                                      *)

WIDTH == 800

HEIGHT == 600

INITIAL_FRAMERATE == 5

MAX_FRAMERATE == 20

SnakeSize == 20

FoodSize == 20

---------------------------------------------------------------------------
(* Bounds of the exploration.                                              *)

\* Directional keys arrive only while the head is within Roam cells of the
\* arena centre (in both axes); outside that zone the snake runs straight on.
Roam == 1

\* The random sampler's results are explored within FoodSpan cells of the
\* arena centre (in both axes).
FoodSpan == 1

\* The score is explored up to MaxScore.
MaxScore == 2

\* Ramp exploration: food is sampled among the RampCells cells to the left of
\* the arena centre, on the centre row.
RampCells == 19

\* Unit harness: snakes of up to UnitLen segments ...
UnitLen == 3

\* ... over cells up to UnitSpan columns right of the centre, on two rows.
UnitSpan == 1

\* Food harness: straight snakes of up to FoodLen segments (before growing).
FoodLen == 3

---------------------------------------------------------------------------
(* Helpers.                                                                *)

Range(s) == {s[i] : i \in 1..Len(s)}

Min(a, b) == IF a <= b THEN a ELSE b

UP == <<0, -1>>

DOWN == <<0, 1>>

LEFT == <<-1, 0>>

RIGHT == <<1, 0>>

\* The directions the four arrow keys request (lines 117-124).
Directions == {UP, DOWN, LEFT, RIGHT}

---------------------------------------------------------------------------
(* class Snake                                                             *)

\* Snake.__init__: one segment at the centre of the screen.
InitialBody == << <<WIDTH \div 2, HEIGHT \div 2>> >>

\* Snake.__init__: heading up.
InitialDirection == UP

\* Snake.head is Head of Sequences: body[0], the first element.

\* A mutant of Move: the last element is not popped.
MoveNoPop(b, d) ==
    <<<<Head(b)[1] + d[1] * SnakeSize, Head(b)[2] + d[2] * SnakeSize>>>> \o b

\* Snake.move: insert the new head at index 0, then pop the last element.
Move(b, d) ==
    LET new_head == <<Head(b)[1] + d[1] * SnakeSize, Head(b)[2] + d[2] * SnakeSize>>
        inserted == <<new_head>> \o b
    IN  SubSeq(inserted, 1, Len(inserted) - 1)

\* A mutant of ChangeDirection: the reversal guard is missing.
ChangeDirectionUnguarded(d, new_direction) == new_direction

\* Snake.change_direction: the direction after the call.
ChangeDirection(d, new_direction) ==
    IF <<new_direction[1] * (-1), new_direction[2] * (-1)>> # d
    THEN new_direction
    ELSE d

\* A mutant of IsSelfCollision: head in body, the head itself included.
IsSelfCollisionWholeBody(b) == \E i \in 1..Len(b) : b[i] = Head(b)

\* A mutant of IsSelfCollision: the snake never hits itself.
IsSelfCollisionNever(b) == FALSE

\* Snake.is_self_collision: head in body[1:].
IsSelfCollision(b) == \E i \in 2..Len(b) : b[i] = Head(b)

\* A mutant of IsWallCollision: the right and bottom edges are off by one.
IsWallCollisionOffByOne(b) ==
    \/ Head(b)[1] < 0
    \/ Head(b)[1] > WIDTH
    \/ Head(b)[2] < 0
    \/ Head(b)[2] > HEIGHT

\* Snake.is_wall_collision
IsWallCollision(b) ==
    \/ Head(b)[1] < 0
    \/ Head(b)[1] >= WIDTH
    \/ Head(b)[2] < 0
    \/ Head(b)[2] >= HEIGHT

\* A mutant of Grow: nothing is appended.
GrowNothing(b) == b

\* A mutant of Grow: a copy of the head is appended.
GrowHead(b) == Append(b, b[1])

\* Snake.grow: append a copy of the last segment.
Grow(b) == Append(b, b[Len(b)])

---------------------------------------------------------------------------
(* class Food                                                              *)

\* Food.__init__: the placeholder position before the first placement.
PlaceholderPosition == <<0, 0>>

\* A mutant of SamplePositions: the upper bounds of randint are excluded.
SamplePositionsExclusive ==
    {<<i * FoodSize, j * FoodSize>> :
        i \in 0..(((WIDTH - FoodSize) \div FoodSize) - 1),
        j \in 0..(((HEIGHT - FoodSize) \div FoodSize) - 1)}

\* The positions one sample of reset_position can draw:
\* (randint(0, (WIDTH - size) // size) * size, randint(0, (HEIGHT - size) // size) * size).
SamplePositions ==
    {<<i * FoodSize, j * FoodSize>> :
        i \in 0..((WIDTH - FoodSize) \div FoodSize),
        j \in 0..((HEIGHT - FoodSize) \div FoodSize)}

\* A mutant of ResetPosition: the first sample is kept, on the snake or not.
ResetPositionAny(b) == SamplePositions

\* Food.reset_position: the positions the rejection loop can return for a snake
\* with body b (a sample is kept iff it is not in the body).
ResetPosition(b) == {p \in SamplePositions : p \notin Range(b)}

---------------------------------------------------------------------------
(* main(): the state after lines 104-110.                                  *)

\* `call' is a history variable: the last operation recorded (none, or a
\* restart of the game, or a restart key that was ignored, or a method called
\* by the unit harnesses below), its
\* argument, and the snake before it.
NoCall == [op |-> "none", arg |-> UP, body |-> InitialBody, direction |-> UP]

Called(op, arg) == [op |-> op, arg |-> arg, body |-> body, direction |-> direction]

Centre == Head(InitialBody)

\* The cells within n cells of the arena centre, in both axes.
Near(p, n) ==
    /\ p[1] >= Centre[1] - n * SnakeSize
    /\ p[1] <= Centre[1] + n * SnakeSize
    /\ p[2] >= Centre[2] - n * SnakeSize
    /\ p[2] <= Centre[2] + n * SnakeSize

Init ==
    /\ body = InitialBody
    /\ direction = InitialDirection
    /\ position \in {p \in ResetPosition(InitialBody) : Near(p, FoodSpan)}
    /\ score = 0
    /\ framerate = INITIAL_FRAMERATE
    /\ game_over = FALSE
    /\ running = TRUE
    /\ pc = "events"
    /\ call = NoCall

---------------------------------------------------------------------------
(* main(): the event loop, one action per event branch.                    *)

\* pygame.QUIT
Quit ==
    /\ pc = "events"
    /\ running' = FALSE
    /\ call' = NoCall
    /\ UNCHANGED <<body, direction, position, score, framerate, game_over, pc>>

\* pygame.KEYDOWN with K_UP, K_DOWN, K_LEFT or K_RIGHT, requesting direction d.
KeyDirection(d) ==
    /\ pc = "events"
    /\ direction' = ChangeDirection(direction, d)
    /\ call' = NoCall
    /\ UNCHANGED <<body, position, score, framerate, game_over, running, pc>>

\* A mutant of RestartHonoured: K_r restarts the game in any phase.
RestartHonouredAlways == TRUE

\* Whether K_r is honoured (line 125).
RestartHonoured == game_over

\* A mutant of KeyR: the score is not reset (line 129 missing).
KeyRKeepsScore ==
    /\ pc = "events"
    /\ IF RestartHonoured
       THEN /\ body' = InitialBody
            /\ direction' = InitialDirection
            /\ position' \in ResetPosition(InitialBody)
            /\ score' = score
            /\ framerate' = INITIAL_FRAMERATE
            /\ game_over' = FALSE
            /\ call' = [NoCall EXCEPT !.op = "restart", !.direction = direction]
       ELSE /\ call' = [NoCall EXCEPT !.op = "restart_ignored"]
            /\ UNCHANGED <<body, direction, position, score, framerate, game_over>>
    /\ UNCHANGED <<running, pc>>

\* pygame.KEYDOWN with K_r.
KeyR ==
    /\ pc = "events"
    /\ IF RestartHonoured
       THEN /\ body' = InitialBody
            /\ direction' = InitialDirection
            /\ position' \in ResetPosition(InitialBody)
            /\ score' = 0
            /\ framerate' = INITIAL_FRAMERATE
            /\ game_over' = FALSE
            /\ call' = [NoCall EXCEPT !.op = "restart", !.direction = direction]
       ELSE /\ call' = [NoCall EXCEPT !.op = "restart_ignored"]
            /\ UNCHANGED <<body, direction, position, score, framerate, game_over>>
    /\ UNCHANGED <<running, pc>>

\* Any other event (another key, another event type): no branch is taken.
OtherEvent ==
    /\ pc = "events"
    /\ call' = NoCall
    /\ UNCHANGED game

---------------------------------------------------------------------------
(* main(): the rest of the loop body (lines 133-162) and the loop test.    *)

\* A mutant of Simulates: the simulation step runs in GameOver too.
SimulatesAlways == TRUE

\* Whether the simulation step runs this frame (line 133).
Simulates == ~game_over

\* Whether the moved snake has hit something (line 136).
Collides(b) == IsSelfCollision(b) \/ IsWallCollision(b)

\* A mutant of Eats: only the x coordinates are compared.
EatsSameColumn(b, p) == Head(b)[1] = p[1]

\* Whether the moved snake eats (line 139).
Eats(b, p) == Head(b) = p

\* A mutant of NextFramerate: no maximum.
NextFramerateUncapped(f) == f + 1

\* The framerate after eating (line 143).
NextFramerate(f) == Min(f + 1, MAX_FRAMERATE)

\* The score after eating (line 142).
NextScore(s) == s + 1

\* A mutant of LoopTest: the loop does not test `running'.
LoopTestForever == "events"

\* Where the loop goes after a frame (line 112, `while running').
LoopTest == IF running THEN "events" ELSE "exited"

Frame ==
    /\ pc = "events"
    /\ IF Simulates
       THEN LET moved == Move(body, direction)
            IN  /\ game_over' = (IF Collides(moved) THEN TRUE ELSE game_over)
                /\ IF Eats(moved, position)
                   THEN /\ body' = Grow(moved)
                        /\ position' \in ResetPosition(Grow(moved))
                        /\ score' = NextScore(score)
                        /\ framerate' = NextFramerate(framerate)
                   ELSE /\ body' = moved
                        /\ UNCHANGED <<position, score, framerate>>
       ELSE UNCHANGED <<body, position, score, framerate, game_over>>
    /\ pc' = LoopTest
    /\ call' = NoCall
    /\ UNCHANGED <<direction, running>>

---------------------------------------------------------------------------
(* The game, explored around the arena centre.                             *)

\* Directional keys are pressed while the head is in the roaming zone, or
\* once the game is over.
PlayKeyDirection ==
    /\ game_over \/ Near(Head(body), Roam)
    /\ \E d \in Directions : KeyDirection(d)

PlayKeyR == KeyR /\ Near(position', FoodSpan)

PlayFrame == Frame /\ Near(position', FoodSpan) /\ score' <= MaxScore

Next ==
    \/ Quit
    \/ PlayKeyDirection
    \/ PlayKeyR
    \/ OtherEvent
    \/ PlayFrame

Spec == Init /\ [][Next]_vars

---------------------------------------------------------------------------
(* The game, explored along the centre row: the player steers only from   *)
(* the arena centre, and food is sampled to the left of the centre.       *)

OnRamp(p) ==
    /\ p[2] = Centre[2]
    /\ p[1] < Centre[1]
    /\ p[1] >= Centre[1] - RampCells * SnakeSize

RampInit ==
    /\ body = InitialBody
    /\ direction = InitialDirection
    /\ position \in {p \in ResetPosition(InitialBody) : OnRamp(p)}
    /\ score = 0
    /\ framerate = INITIAL_FRAMERATE
    /\ game_over = FALSE
    /\ running = TRUE
    /\ pc = "events"
    /\ call = NoCall

RampKeyDirection ==
    /\ game_over \/ Near(Head(body), 0)
    /\ \E d \in Directions : KeyDirection(d)

RampKeyR == KeyR /\ OnRamp(position')

RampFrame == Frame /\ OnRamp(position')

RampNext ==
    \/ Quit
    \/ RampKeyDirection
    \/ RampKeyR
    \/ OtherEvent
    \/ RampFrame

SpecRamp == RampInit /\ [][RampNext]_vars

---------------------------------------------------------------------------
(* A unit harness of class Snake: a snake with any body and direction,     *)
(* and one call of a method (or grow() followed by move()).  `call' keeps  *)
(* the method called, its argument and the snake before the call.          *)

UnitCells ==
    {<<Centre[1] + i * SnakeSize, Centre[2] + j * SnakeSize>> :
        i \in 0..UnitSpan, j \in 0..1}

UnitBodies == UNION {[1..n -> UnitCells] : n \in 1..UnitLen}

UnitInit ==
    /\ body \in UnitBodies
    /\ direction \in Directions
    /\ position = PlaceholderPosition
    /\ score = 0
    /\ framerate = INITIAL_FRAMERATE
    /\ game_over = FALSE
    /\ running = TRUE
    /\ pc = "unit"
    /\ call = NoCall

CallMove ==
    /\ pc = "unit"
    /\ call.op \in {"none", "grow"}
    /\ body' = Move(body, direction)
    /\ call' = IF call.op = "grow"
               THEN [call EXCEPT !.op = "grow_move"]
               ELSE Called("move", direction)
    /\ UNCHANGED <<direction, position, score, framerate, game_over, running, pc>>

CallChangeDirection ==
    /\ pc = "unit"
    /\ call.op = "none"
    /\ \E d \in Directions :
        /\ direction' = ChangeDirection(direction, d)
        /\ call' = Called("change_direction", d)
    /\ UNCHANGED <<body, position, score, framerate, game_over, running, pc>>

CallGrow ==
    /\ pc = "unit"
    /\ call.op = "none"
    /\ body' = Grow(body)
    /\ call' = Called("grow", direction)
    /\ UNCHANGED <<direction, position, score, framerate, game_over, running, pc>>

UnitNext ==
    \/ CallMove
    \/ CallChangeDirection
    \/ CallGrow

SpecSnake == UnitInit /\ [][UnitNext]_vars

---------------------------------------------------------------------------
(* A unit harness of Food.reset_position: the rejection loop, one sample   *)
(* per step, for a snake that does not change during the call.            *)

\* A straight snake of n segments, head at the arena centre, tail below.
StraightBody(n) == [i \in 1..n |-> <<Centre[1], Centre[2] + (i - 1) * SnakeSize>>]

\* A snake that covers the whole grid, row by row, alternating direction.
FullBody ==
    LET cols == WIDTH \div SnakeSize
        rows == HEIGHT \div SnakeSize
        Cell(k) == LET r == k \div cols
                       c == k % cols
                   IN  <<(IF r % 2 = 0 THEN c ELSE cols - 1 - c) * SnakeSize,
                         r * SnakeSize>>
    IN  [i \in 1..(cols * rows) |-> Cell(i - 1)]

\* The snakes passed in: the new snake (lines 106, 128), snakes that have
\* just grown (line 141), and a snake that has grown over the whole grid.
FoodBodies ==
    {InitialBody} \cup {Grow(StraightBody(n)) : n \in 1..FoodLen} \cup {Grow(FullBody)}

FoodInit ==
    /\ body \in FoodBodies
    /\ direction = InitialDirection
    /\ position = PlaceholderPosition
    /\ score = 0
    /\ framerate = INITIAL_FRAMERATE
    /\ game_over = FALSE
    /\ running = TRUE
    /\ pc = "reset_position"
    /\ call = NoCall

\* A mutant of Accepts: every sample is accepted.
AcceptsAlways(p, occupied) == TRUE

\* Whether the loop breaks on sample p (line 85), for a snake whose body
\* holds the positions `occupied'.
Accepts(p, occupied) == p \notin occupied

\* One iteration of the loop (lines 81-86) that draws p.
SampleAt(p, occupied) ==
    /\ pc = "reset_position"
    /\ position' = p
    /\ pc' = IF Accepts(p, occupied) THEN "returned" ELSE "reset_position"
    /\ UNCHANGED <<body, direction, score, framerate, game_over, running, call>>

\* An iteration whose sample is on the snake; these samples are explored
\* within FoodSpan cells of the arena centre.
SampleOnSnake ==
    LET occupied == Range(body)
    IN  \E p \in {q \in SamplePositions : Near(q, FoodSpan)} :
            p \in occupied /\ SampleAt(p, occupied)

\* An iteration whose sample is not on the snake.
SampleFree ==
    LET occupied == Range(body)
    IN  \E p \in SamplePositions : p \notin occupied /\ SampleAt(p, occupied)

FoodNext ==
    \/ SampleOnSnake
    \/ SampleFree

SpecFood == FoodInit /\ [][FoodNext]_vars

\* Fair sampling: a position that is not on the snake is eventually drawn.
SpecFoodFair == SpecFood /\ WF_vars(SampleFree)

---------------------------------------------------------------------------
(* The claims.                                                             *)

\* What a claim says of a frame, stated on the snake before the frame: the
\* head after one move, whether it lies outside the arena, and whether it
\* falls on a segment that is still a non-head segment after the move.
ClaimNewHead ==
    <<Head(body)[1] + direction[1] * 20, Head(body)[2] + direction[2] * 20>>

ClaimOutside(p) == p[1] < 0 \/ p[1] >= 800 \/ p[2] < 0 \/ p[2] >= 600

ClaimHitsBody == \E i \in 1..(Len(body) - 1) : body[i] = ClaimNewHead

ClaimCollision == ClaimHitsBody \/ ClaimOutside(ClaimNewHead)

\* A frame whose simulation step runs (the phase is Running).
RunningFrame == ~game_over /\ Frame

\* A step that processes a restart event in GameOver (`call' records it).
RestartStep == game_over /\ call'.op = "restart"

\* C1: after the initial placement the food position is never an element of
\* the snake's body: after moves, after a grow, in GameOver and directly
\* after a restart.
C1_FoodNotInBody == \A i \in 1..Len(body) : body[i] # position

\* C1: the game is over for a snake that has eaten, with its food placed.
C1_Witness == game_over /\ score >= 1 /\ Len(body) >= 2 /\ pc = "events"

\* C2: a frame in phase Running ends in GameOver iff the moved head is on a
\* non-head segment or outside the arena, and otherwise stays Running; the
\* phase becomes GameOver in no other step.
C2_GameOverIffCollision ==
    [][ /\ RunningFrame => (game_over' <=> ClaimCollision)
        /\ (~game_over /\ game_over') => Frame ]_vars

\* C2: the game is over with the head outside the arena.
C2_Witness == game_over /\ ClaimOutside(Head(body))

\* C3: in GameOver every step that is not a restart (a frame, or any other
\* event, directional keys included) leaves the body, the food position,
\* the score and the framerate unchanged, and the phase GameOver.
C3_GameOverFreezes ==
    [][ (game_over /\ ~RestartStep) =>
            /\ game_over'
            /\ UNCHANGED <<body, position, score, framerate>> ]_vars

\* C3: the loop has run a frame in GameOver after a directional key changed
\* the direction there (the direction is no longer the one of the last move).
C3_Witness ==
    /\ game_over
    /\ pc = "exited"
    /\ Len(body) >= 2
    /\ body[2] # body[1]
    /\ body[1] # <<body[2][1] + direction[1] * 20, body[2][2] + direction[2] * 20>>

\* C4: a restart event processed in GameOver gives score 0, framerate 5,
\* phase Running, a snake of one segment at (400, 300) heading up whatever
\* direction the keys set during GameOver, and food that is not on the snake.
C4_RestartResets ==
    [][ RestartStep =>
            /\ score' = 0
            /\ framerate' = 5
            /\ ~game_over'
            /\ body' = << <<400, 300>> >>
            /\ direction' = <<0, -1>>
            /\ position' # <<400, 300>> ]_vars

\* C4: the state directly after a restart made while the direction was not up.
C4_Witness ==
    /\ call.op = "restart"
    /\ call.direction # <<0, -1>>
    /\ direction = <<0, -1>>
    /\ ~game_over

\* C5: a Running frame without collision whose moved head is on the food
\* lengthens the body by one (the tail duplicated), adds one to the score,
\* sets the framerate to min(framerate + 1, 20) and moves the food to a
\* position that is not in the lengthened body.
C5_EatGrows ==
    [][ (RunningFrame /\ ~ClaimCollision /\ ClaimNewHead = position) =>
            /\ Len(body') = Len(body) + 1
            /\ body'[1] = ClaimNewHead
            /\ \A i \in 2..Len(body) : body'[i] = body[i - 1]
            /\ body'[Len(body')] = body'[Len(body)]
            /\ score' = score + 1
            /\ framerate' = (IF framerate + 1 <= 20 THEN framerate + 1 ELSE 20)
            /\ \A i \in 1..Len(body') : body'[i] # position' ]_vars

\* C5: the state directly after eating at framerate 20 (the last two
\* segments coincide only until the next move).
C5_Witness ==
    /\ ~game_over
    /\ framerate = 20
    /\ score >= 16
    /\ Len(body) >= 2
    /\ body[Len(body)] = body[Len(body) - 1]

\* C6: a Running frame whose moved head is neither on the food nor in
\* collision leaves the score, the framerate, the food position and the
\* body length unchanged and the phase Running.
C6_PlainMoveKeeps ==
    [][ (RunningFrame /\ ~ClaimCollision /\ ClaimNewHead # position) =>
            /\ UNCHANGED <<score, framerate, position>>
            /\ Len(body') = Len(body)
            /\ ~game_over' ]_vars

\* C6: a fresh game that has moved without eating: score 0, framerate 5.
C6_Witness ==
    /\ ~game_over
    /\ score = 0
    /\ framerate = 5
    /\ Len(body) = 1
    /\ body # << <<400, 300>> >>

\* C7: the framerate starts at 5, is always within 5..20, decreases only by
\* a restart that resets it to 5, and an eating frame at framerate 20 leaves
\* it at 20 while the score still increases.
C7_FramerateBounded ==
    /\ framerate = 5
    /\ [](framerate \in 5..20)
    /\ [][ /\ framerate' < framerate => (RestartStep /\ framerate' = 5)
           /\ (RunningFrame /\ ClaimNewHead = position /\ framerate = 20) =>
                  (framerate' = 20 /\ score' = score + 1) ]_vars

\* C7: the framerate is 20 after more food was eaten than it takes to get there.
C7_Witness == framerate = 20 /\ score >= 17

\* The exact negation of a direction.
ClaimOpposite(d) == <<0 - d[1], 0 - d[2]>>

\* C8: move() keeps the length of the body, puts the head at the old head
\* plus direction * 20, and puts every other segment i where segment i - 1
\* was (the former last segment is dropped).
C8_MoveShifts ==
    call.op = "move" =>
        /\ Len(body) = Len(call.body)
        /\ body[1] = <<call.body[1][1] + call.direction[1] * 20,
                       call.body[1][2] + call.direction[2] * 20>>
        /\ \A i \in 2..Len(body) : body[i] = call.body[i - 1]
        /\ direction = call.direction

\* C8: move() was called on a snake of at least three segments.
C8_Witness == call.op = "move" /\ Len(call.body) >= 3 /\ call.body[2] # call.body[3]

\* C9, as stated: change_direction(d) leaves the snake unchanged iff d is the
\* exact negation of the current direction, and otherwise the direction is d.
C9_NoOpIffOpposite ==
    call.op = "change_direction" =>
        /\ (body = call.body /\ direction = call.direction)
               <=> (call.arg = ClaimOpposite(call.direction))
        /\ call.arg # ClaimOpposite(call.direction) => direction = call.arg

\* C9, amended: change_direction(d) leaves the snake unchanged iff d is the
\* exact negation of the current direction or the current direction itself;
\* whenever d is not the exact negation, the direction is d after the call;
\* the body is never changed.
C9_NoOpIffOppositeOrSame ==
    call.op = "change_direction" =>
        /\ (body = call.body /\ direction = call.direction)
               <=> (call.arg \in {ClaimOpposite(call.direction), call.direction})
        /\ call.arg # ClaimOpposite(call.direction) => direction = call.arg
        /\ body = call.body

\* C9: change_direction was called with the exact negation of the direction.
C9_Witness ==
    /\ call.op = "change_direction"
    /\ call.arg = ClaimOpposite(call.direction)
    /\ direction = call.direction

\* C10: after grow() and then one move(), the body is one longer than before
\* grow(), and its last segment is where the tail was before grow().
C10_GrowThenMove ==
    call.op = "grow_move" =>
        /\ Len(body) = Len(call.body) + 1
        /\ body[Len(body)] = call.body[Len(call.body)]

\* C10: grow() and move() were called on a snake whose tail is not its head.
C10_Witness ==
    /\ call.op = "grow_move"
    /\ Len(call.body) >= 2
    /\ call.body[Len(call.body)] # call.body[1]

\* The cells of the arena: x a multiple of 20 in 0..780, y one in 0..580.
ClaimArenaCells == {<<20 * i, 20 * j>> : i \in 0..39, j \in 0..29}

\* C11: every position reset_position returns is a cell of the arena, aligned
\* to the grid, and not an element of the body of the snake passed in; and
\* every arena cell that is not in the body can be returned.
C11_ResetPositionResult ==
    /\ pc = "returned" =>
           /\ position \in ClaimArenaCells
           /\ \A i \in 1..Len(body) : body[i] # position
    /\ pc = "reset_position" =>
           \A c \in ClaimArenaCells :
               (\A i \in 1..Len(body) : body[i] # c) =>
                   /\ c \in SamplePositions
                   /\ ENABLED (SampleAt(c, Range(body)) /\ pc' = "returned")

\* C11: reset_position returned the last cell of the grid for a grown snake.
C11_Witness == pc = "returned" /\ Len(body) >= 3 /\ position = <<780, 580>>

\* C12: a restart key event received in phase Running changes none of the
\* body, the direction, the food position, the score, the framerate and the
\* phase.
C12_RestartIgnoredWhileRunning ==
    [][ (~game_over /\ KeyR) =>
            UNCHANGED <<body, direction, position, score, framerate, game_over>> ]_vars

\* C12: the state directly after a restart key in a Running game with a score.
C12_Witness == call.op = "restart_ignored" /\ ~game_over /\ score >= 1 /\ running

\* C13: whatever key events are drained, the direction of a move is never
\* the exact opposite of the direction of the snake's previous move, so the
\* head never moves onto the cell of its second segment.  (For a snake whose
\* first two segments differ, the previous move went from the second
\* segment's cell to the head's.)
C13_NoInstantReversal ==
    [][ (RunningFrame /\ Len(body) >= 2 /\ body[2] # body[1]) =>
            ClaimNewHead # body[2] ]_vars

\* C14: on the frame that takes the phase to GameOver nothing is eaten: the
\* score, the framerate, the food position and the body length are unchanged.
C14_NoEatOnCollision ==
    [][ (RunningFrame /\ game_over') =>
            /\ UNCHANGED <<score, framerate, position>>
            /\ Len(body') = Len(body) ]_vars

\* C14: the game is over by a self-collision of a snake that has eaten twice.
C14_Witness ==
    /\ game_over
    /\ score = 2
    /\ Len(body) = 3
    /\ \E i \in 2..3 : body[i] = body[1]

\* C15, as stated: the score, the framerate and the phase change only in the
\* simulation step; processing an input event, a restart included, changes
\* none of them.
C15_OnlyFrameMutates ==
    [][ ~Frame => UNCHANGED <<score, framerate, game_over>> ]_vars

\* C15, amended: processing an input event changes none of the score, the
\* framerate and the phase, except a restart event processed in GameOver,
\* which sets the score to 0, the framerate to 5 and the phase to Running.
C15_OnlyFrameOrRestartMutates ==
    [][ ~Frame =>
            \/ UNCHANGED <<score, framerate, game_over>>
            \/ RestartStep /\ score' = 0 /\ framerate' = 5 /\ ~game_over' ]_vars

\* C15: the event loop has just changed the phase from GameOver to Running.
C15_Witness ==
    /\ call.op = "restart"
    /\ pc = "events"
    /\ ~game_over
    /\ score = 0
    /\ framerate = 5

\* C16: a quit event does not interrupt its frame.  The quit event itself
\* changes nothing but `running'; events can still be processed after it;
\* the frame that follows still runs the simulation step if the phase is
\* Running, and then the loop ends: no step is taken after it, and
\* `running' never becomes true again.
C16_QuitEndsAfterFrame ==
    /\ []((~running /\ pc = "events") =>
              /\ ENABLED (\E d \in Directions : KeyDirection(d))
              /\ ENABLED KeyR
              /\ ENABLED Frame)
    /\ [][ /\ (running /\ ~running') =>
                  UNCHANGED <<body, direction, position, score, framerate, game_over, pc>>
           /\ (~running /\ Frame) =>
                  /\ pc' = "exited"
                  /\ ~game_over => body'[1] = ClaimNewHead
           /\ ~running => ~running'
           /\ pc # "exited" ]_vars

\* C16: the loop has ended after a quit, and its last frame ate the first
\* food (the two segments coincide only at the end of that frame).
C16_Witness ==
    /\ pc = "exited"
    /\ ~running
    /\ score = 1
    /\ body[1] = body[Len(body)]
    /\ Len(body) = 2

\* The snake's body covers every cell of the grid.
ClaimCovers == \A c \in ClaimArenaCells : \E i \in 1..Len(body) : body[i] = c

\* C17: the rejection loop of reset_position has no retry bound.  With fair
\* sampling it eventually returns whenever some arena cell is not in the
\* body; when the body covers every cell no sample ends the loop and it
\* never returns.
C17_ResetPositionTermination ==
    /\ [](ClaimCovers => (pc # "returned" /\ ~ENABLED SampleFree))
    /\ (pc = "reset_position" /\ ~ClaimCovers) ~> (pc = "returned")

\* C17: a sample was drawn and rejected for a snake that covers the grid.
C17_Witness ==
    /\ pc = "reset_position"
    /\ position # <<0, 0>>
    /\ Len(body) > 1200
    /\ ClaimCovers

\* C18: in every reachable state the body has score + 1 segments.
C18_LengthIsScorePlusOne == Len(body) = score + 1

\* C18: a snake that has eaten five times and moved on since.
C18_Witness == score = 5 /\ Len(body) = 6 /\ ~game_over /\ body[5] # body[6]

\* C19: in every reachable state the framerate is min(5 + score, 20).
C19_FramerateFromScore ==
    framerate = (IF 5 + score <= 20 THEN 5 + score ELSE 20)

\* C19: the score has gone past the one at which the framerate reached 20.
C19_Witness == score = 18 /\ framerate = 20 /\ game_over

\* The cell is inside the arena and aligned to the grid.
ClaimInArena(p) == p \in ClaimArenaCells

\* C20, as stated: in phase Running every segment is an arena cell and the
\* head differs from every other segment; in phase GameOver every non-head
\* segment is an arena cell and the head is at most one cell outside.
C20_BodyInArena ==
    /\ ~game_over =>
           /\ \A i \in 1..Len(body) : ClaimInArena(body[i])
           /\ \A i \in 2..Len(body) : body[i] # body[1]
    /\ game_over =>
           /\ \A i \in 2..Len(body) : ClaimInArena(body[i])
           /\ body[1][1] \in -20..800
           /\ body[1][2] \in -20..600

\* C20, amended: as stated, except that in phase Running the head may equal
\* the other segment of a body of exactly two segments (score 1): at the end
\* of the frame in which a one-segment snake eats, the body is twice the
\* same cell.
C20_BodyInArenaButFirstEat ==
    /\ ~game_over =>
           /\ \A i \in 1..Len(body) : ClaimInArena(body[i])
           /\ \/ \A i \in 2..Len(body) : body[i] # body[1]
              \/ Len(body) = 2 /\ score = 1
    /\ game_over =>
           /\ \A i \in 2..Len(body) : ClaimInArena(body[i])
           /\ body[1][1] \in -20..800
           /\ body[1][2] \in -20..600

\* C20: a three-segment snake one cell outside the arena, the game over.
C20_Witness ==
    /\ game_over
    /\ Len(body) = 3
    /\ ~ClaimInArena(body[1])
    /\ body[2] # body[3]

=============================================================================
